---- MODULE Spec2Model ----
(***************************************************************************)
(* Model of the code generated by wasmi's derive crate                     *)
(* (src/derive/src/codegen.rs): the `Externals::invoke_index` dispatcher   *)
(* and the `resolver()` closure `resolve_func`, for a binding unit         *)
(* (ImplBlockDef) holding an ordered list of function declarations.        *)
(***************************************************************************)
EXTENDS Integers, Sequences, FiniteSets, TLC

\* ------------------------------------------------------------------ bounds
\* Longest argument list / signature parameter list offered by the machine.
MaxArgs == 2
\* Largest payload of a runtime value offered by the machine.
MaxVal == 1
\* Largest index the machine passes to invoke_index.
MaxIndex == 4
\* Largest number of declarations in a binding unit.
MaxFuncs == 2

\* ------------------------------------------------- options and value types
\* Rust's Option<T>: None is the empty sequence, Some(x) the one-element one.
None == <<>>
Some(x) == <<x>>

\* wasmi's ValueType tags used by the model.
ValueType == {"I32", "I64"}

\* Native Rust types the declared methods use.
NativeTy == {"i32", "u32", "i64"}

\* <T as IntoWasmValue>::VALUE_TYPE: the runtime tag of a native type.
TagOf(ty) == IF ty = "i64" THEN "I64" ELSE "I32"

\* RuntimeValue: a tagged payload.
RuntimeValue == [ty : ValueType, val : 0..MaxVal]

\* RuntimeValue::try_into::<T>(): Some(native value) when the runtime tag is
\* the tag of T, None otherwise.
TryInto(rt_val, ty) ==
    IF rt_val.ty = TagOf(ty) THEN Some([ty |-> ty, val |-> rt_val.val]) ELSE None

\* T -> RuntimeValue (IntoWasmValue::into_wasm_value).
IntoWasmValue(v) == [ty |-> TagOf(v.ty), val |-> v.val]

\* ------------------------------------------------------------ declarations
\* A FuncDef (name, index, params) together with the Rust signature of the
\* method `Self::name` that both generated artifacts call: the native type of
\* each parameter, in declared order, and the shape of the return type:
\* "unit" for `()`, "val" for a plain value R, "result" for Result<R, Trap>.
Param(i, t) == [ident |-> i, ty |-> t]

FnSub  == [name |-> "sub", index |-> 0,
           params |-> <<Param("a", "u32"), Param("b", "i32")>>,
           ret |-> [kind |-> "val", ty |-> "i32"]]
FnDiv  == [name |-> "div", index |-> 1,
           params |-> <<Param("a", "i64"), Param("b", "i64")>>,
           ret |-> [kind |-> "result", ty |-> "i64"]]
FnTick == [name |-> "tick", index |-> 4,
           params |-> <<>>,
           ret |-> [kind |-> "unit", ty |-> "i32"]]
\* A second declaration of the method `sub` (its types are those of
\* Self::sub), under the ordinal FnDiv uses: it collides with FnSub by name
\* and with FnDiv by ordinal.
FnSub2 == [FnSub EXCEPT !.index = 1]

FuncDefs == {FnSub, FnDiv, FnTick, FnSub2}

\* Names the linker may ask for: every declared name and an undeclared one.
Names == {f.name : f \in FuncDefs} \cup {"nope"}

RECURSIVE SeqsUpTo(_, _)
SeqsUpTo(S, n) ==
    IF n = 0 THEN {<<>>}
    ELSE LET shorter == SeqsUpTo(S, n - 1)
         IN  shorter \cup {Append(s, x) : s \in {t \in shorter : Len(t) = n - 1}, x \in S}

\* ImplBlockDef.funcs: ordered declarations, each declaration at most once.
ImplBlockDefs ==
    {fs \in SeqsUpTo(FuncDefs, MaxFuncs) :
        Len(fs) >= 1 /\ \A i, j \in 1..Len(fs) : i # j => fs[i] # fs[j]}

\* Signature { params, return_type }.
Signatures == [params : SeqsUpTo(ValueType, MaxArgs),
               return_type : {None} \cup {Some(t) : t \in ValueType}]

ArgLists == SeqsUpTo(RuntimeValue, MaxArgs)

\* ------------------------------------------------------------ result shapes
\* What one run of generated code produced: how it ended ("Ok", "Err" or
\* "panic"), the FuncRef or RuntimeValue it returned (as Options), the error
\* it carried and the native methods it called, in call order.
NoError == [class |-> "none", text |-> "", name |-> "", signatures |-> <<>>, index |-> <<>>]

Outcome(kind, func_ref, value, error, natives) ==
    [kind |-> kind, func_ref |-> func_ref, value |-> value, error |-> error,
     natives |-> natives]

\* panic!(..) / Option::unwrap() on None: the run unwinds, nothing is returned.
Panic(text, index, natives) ==
    Outcome("panic", None, None,
            [class |-> "panic", text |-> text, name |-> "", signatures |-> <<>>,
             index |-> index],
            natives)

\* Error::Instantiation(format!(text, name, signatures...)).
Instantiation(text, name, signatures) ==
    [class |-> "Instantiation", text |-> text, name |-> name,
     signatures |-> signatures, index |-> <<>>]

\* A Trap reported by a native method.
Trap(name) ==
    [class |-> "Trap", text |-> "host error", name |-> name, signatures |-> <<>>,
     index |-> <<>>]

\* FuncInstance::alloc_host(signature, host_func_index).
AllocHost(signature, index) == [signature |-> signature, index |-> index]

\* ----------------------------------------------------------- native methods
\* The body of the declared method: left-to-right subtraction of its
\* arguments (so a permutation of the arguments is observable); a method of
\* no arguments returns a constant.
RECURSIVE SubFold(_)
SubFold(a) ==
    IF Len(a) = 0 THEN 7
    ELSE IF Len(a) = 1 THEN a[1].val
    ELSE SubFold(SubSeq(a, 1, Len(a) - 1)) - a[Len(a)].val

\* What `self.name(args)` returns: () for a "unit" method, a value for a "val"
\* method, and for a "result" method Err(Trap) when the last argument is 0
\* (a division by zero) and Ok(value) otherwise.
NativeMethod(f, a) ==
    LET v == [ty |-> f.ret.ty, val |-> SubFold(a)]
    IN  CASE f.ret.kind = "unit" -> [shape |-> "unit", value |-> None, trap |-> None]
          [] f.ret.kind = "val"  -> [shape |-> "val", value |-> Some(v), trap |-> None]
          [] OTHER ->
               IF Len(a) > 0 /\ a[Len(a)].val = 0
               THEN [shape |-> "err", value |-> None, trap |-> Some(Trap(f.name))]
               ELSE [shape |-> "ok", value |-> Some(v), trap |-> None]

\* IntoWasmResult::into_wasm_result(r): Ok(None) for (), Ok(Some(value)) for
\* a value or Ok(value), Err(trap) for Err(trap).
IntoWasmResult(r, natives) ==
    CASE r.shape = "unit" -> Outcome("Ok", None, None, NoError, natives)
      [] r.shape = "err"  -> Outcome("Err", None, None, r.trap[1], natives)
      [] OTHER -> Outcome("Ok", None, Some(IntoWasmValue(r.value[1])), NoError, natives)

\* <R as IntoWasmResult>::VALUE_TYPE of the method's return type.
RetValueType(ret) == IF ret.kind = "unit" THEN None ELSE Some(TagOf(ret.ty))

\* ------------------------------------------------------------ type helpers
\* materialize_arg_ty(ident): the tag of the type inferred for the placeholder.
materialize_arg_ty(param) == TagOf(param.ty)

\* materialize_ret_type(return_val): the tag of the inferred return type.
materialize_ret_type(f) == RetValueType(f.ret)

\* ---------------------------------------------------------------- dispatcher
\* The prologue of a dispatch arm: one `let ident = args.next()
\* .and_then(|rt_val| rt_val.try_into()).unwrap();` per parameter, in order.
\* Yields the identifiers bound so far, or ok = FALSE where unwrap() panics.
RECURSIVE Unmarshall(_, _, _)
Unmarshall(params, args, env) ==
    IF Len(params) = 0 THEN [ok |-> TRUE, env |-> env]
    ELSE LET next == IF Len(args) = 0 THEN None ELSE Some(Head(args))
             conv == IF next = None THEN None ELSE TryInto(next[1], Head(params).ty)
         IN  IF conv = None THEN [ok |-> FALSE, env |-> env]
             ELSE Unmarshall(Tail(params),
                             IF Len(args) = 0 THEN args ELSE Tail(args),
                             (Head(params).ident :> conv[1]) @@ env)

\* Variant of CallArgs: the bound identifiers passed in reverse order.
CallArgs_Reversed(f, env) ==
    [i \in 1..Len(f.params) |-> env[f.params[Len(f.params) + 1 - i].ident]]

\* `#name( #(#params),* )`: the bound identifiers, in declared order.
CallArgs(f, env) == [i \in 1..Len(f.params) |-> env[f.params[i].ident]]

\* Variant of the dispatch arm: the epilogue unwraps the native result, so a
\* native Err(Trap) becomes a panic.
emit_dispatch_func_arm_UnwrapResult(f, args) ==
    LET u == Unmarshall(f.params, args, <<>>)
    IN  IF ~u.ok
        THEN Panic("called Option::unwrap() on a None value", <<>>, <<>>)
        ELSE LET a == CallArgs(f, u.env)
                 r == NativeMethod(f, a)
                 natives == <<[name |-> f.name, args |-> a]>>
             IN  IF r.shape = "err"
                 THEN Panic("called Result::unwrap() on an Err value", <<>>, natives)
                 ELSE IntoWasmResult(r, natives)

\* One dispatch arm: prologue, `let r = self.name(params)`, epilogue.
emit_dispatch_func_arm(f, args) ==
    LET u == Unmarshall(f.params, args, <<>>)
    IN  IF ~u.ok
        THEN Panic("called Option::unwrap() on a None value", <<>>, <<>>)
        ELSE LET a == CallArgs(f, u.env)
             IN  IntoWasmResult(NativeMethod(f, a),
                                <<[name |-> f.name, args |-> a]>>)

\* Variant of invoke_index: the default arm returns Ok(None).
RECURSIVE invoke_index_DefaultOk(_, _, _)
invoke_index_DefaultOk(fs, index, args) ==
    IF Len(fs) = 0
    THEN Outcome("Ok", None, None, NoError, <<>>)
    ELSE IF index = Head(fs).index
         THEN emit_dispatch_func_arm(Head(fs), args)
         ELSE invoke_index_DefaultOk(Tail(fs), index, args)

\* invoke_index: `match index { arms, _ => panic!(..) }`; the first arm whose
\* ordinal equals index runs.
RECURSIVE invoke_index(_, _, _)
invoke_index(fs, index, args) ==
    IF Len(fs) = 0
    THEN Panic("fn with index {} is undefined", <<index>>, <<>>)
    ELSE IF index = Head(fs).index
         THEN emit_dispatch_func_arm(Head(fs), args)
         ELSE invoke_index(Tail(fs), index, args)

\* ------------------------------------------------------------------ resolver
\* Variant of TypeInferenceBranch: the type-inference branch is taken.
TypeInferenceBranchTaken == TRUE

\* The condition of the branch holding the type-inference call: `if false`.
TypeInferenceBranch == FALSE

\* The materialized signature of a declaration.
MaterializedSignature(f) ==
    [params |-> [i \in 1..Len(f.params) |-> materialize_arg_ty(f.params[i])],
     return_type |-> materialize_ret_type(f)]

\* Variant of DifferentSignature: the message shows the materialized
\* signature where the requested one belongs.
DifferentSignature_Expected(f, signature) ==
    Instantiation("Export {} has different signature {:?}", f.name,
                  <<MaterializedSignature(f)>>)

\* The error of the mismatch branch:
\* format!("Export {} has different signature {:?}", name, signature).
DifferentSignature(f, signature) ==
    Instantiation("Export {} has different signature {:?}", f.name, <<signature>>)

\* Variant of the resolver arm: only the parameter tags are compared.
emit_resolve_func_arm_ParamsOnly(f, signature) ==
    IF signature.params # MaterializedSignature(f).params
    THEN Outcome("Err", None, None, DifferentSignature(f, signature), <<>>)
    ELSE Outcome("Ok", Some(AllocHost(signature, f.index)), None, NoError, <<>>)

\* Variant of the resolver arm: the FuncRef carries the ordinal off by one.
emit_resolve_func_arm_WrongIndex(f, signature) ==
    IF signature.params # MaterializedSignature(f).params
       \/ signature.return_type # MaterializedSignature(f).return_type
    THEN Outcome("Err", None, None, DifferentSignature(f, signature), <<>>)
    ELSE Outcome("Ok", Some(AllocHost(signature, f.index + 1)), None, NoError, <<>>)

\* The body of one resolver arm, run when `name == f.name`.
emit_resolve_func_arm(f, signature) ==
    IF TypeInferenceBranch
    THEN \* Some(Self::name(panic!(), ident.unwrap(), ..)): panic!() runs first.
         Panic("explicit panic", <<>>, <<>>)
    ELSE IF signature.params # MaterializedSignature(f).params
            \/ signature.return_type # MaterializedSignature(f).return_type
         THEN Outcome("Err", None, None, DifferentSignature(f, signature), <<>>)
         ELSE Outcome("Ok", Some(AllocHost(signature, f.index)), None, NoError, <<>>)

\* Variant of resolve_func: the last arm is taken whatever the name.
RECURSIVE resolve_func_CatchAll(_, _, _)
resolve_func_CatchAll(fs, name, signature) ==
    IF Len(fs) = 0
    THEN Outcome("Err", None, None, Instantiation("Export {} not found", name, <<>>), <<>>)
    ELSE IF name = Head(fs).name \/ Len(fs) = 1
         THEN emit_resolve_func_arm(Head(fs), signature)
         ELSE resolve_func_CatchAll(Tail(fs), name, signature)

\* Variant of resolve_func: the latest arm whose name matches decides.
RECURSIVE resolve_func_LastMatch(_, _, _)
resolve_func_LastMatch(fs, name, signature) ==
    IF Len(fs) = 0
    THEN Outcome("Err", None, None, Instantiation("Export {} not found", name, <<>>), <<>>)
    ELSE IF name = fs[Len(fs)].name
         THEN emit_resolve_func_arm(fs[Len(fs)], signature)
         ELSE resolve_func_LastMatch(SubSeq(fs, 1, Len(fs) - 1), name, signature)

\* resolve_func: the arms in declaration order, then "Export {} not found".
RECURSIVE resolve_func(_, _, _)
resolve_func(fs, name, signature) ==
    IF Len(fs) = 0
    THEN Outcome("Err", None, None, Instantiation("Export {} not found", name, <<>>), <<>>)
    ELSE IF name = Head(fs).name
         THEN emit_resolve_func_arm(Head(fs), signature)
         ELSE resolve_func(Tail(fs), name, signature)

\* ------------------------------------------------------------ state machine
VARIABLES
    funcs,      \* the binding unit's declarations (ImplBlockDef.funcs)
    pc,         \* "ready", "returned" (a result is held) or "aborted" (panicked)
    call,       \* the operation the machine last requested
    result,     \* what that operation produced
    func_ref    \* the FuncRef the linker holds from the last successful resolve

vars == <<funcs, pc, call, result, func_ref>>

NoSignature == [params |-> <<>>, return_type |-> None]
NoCall == [op |-> "none", name |-> "", signature |-> NoSignature, index |-> 0, args |-> <<>>]
NoResult == Outcome("none", None, None, NoError, <<>>)

Init ==
    /\ funcs \in ImplBlockDefs
    /\ pc = "ready"
    /\ call = NoCall
    /\ result = NoResult
    /\ func_ref = None

\* Where a run of generated code leaves the machine.
After(out) == IF out.kind = "panic" THEN "aborted" ELSE "returned"

\* The linker resolves an import: resolver().resolve_func(name, signature).
Resolve(name, signature) ==
    /\ pc = "ready"
    /\ LET out == resolve_func(funcs, name, signature)
       IN  /\ result' = out
           /\ pc' = After(out)
           /\ func_ref' = IF out.kind = "Ok" THEN out.func_ref ELSE func_ref
    /\ call' = [NoCall EXCEPT !.op = "resolve", !.name = name, !.signature = signature]
    /\ UNCHANGED funcs

\* The machine calls invoke_index with an arbitrary index.
Invoke(index, args) ==
    /\ pc = "ready"
    /\ LET out == invoke_index(funcs, index, args)
       IN  /\ result' = out
           /\ pc' = After(out)
    /\ call' = [NoCall EXCEPT !.op = "invoke", !.index = index, !.args = args]
    /\ UNCHANGED <<funcs, func_ref>>

\* The machine calls the host function behind the FuncRef it resolved.
InvokeRef(args) ==
    /\ pc = "ready"
    /\ func_ref # None
    /\ LET out == invoke_index(funcs, func_ref[1].index, args)
       IN  /\ result' = out
           /\ pc' = After(out)
    /\ call' = [NoCall EXCEPT !.op = "invoke_ref", !.index = func_ref[1].index,
                              !.args = args]
    /\ UNCHANGED <<funcs, func_ref>>

\* The caller takes the returned result; the machine is ready for another call.
Return ==
    /\ pc = "returned"
    /\ pc' = "ready"
    /\ call' = NoCall
    /\ result' = NoResult
    /\ UNCHANGED <<funcs, func_ref>>

DoResolve == \E name \in Names, signature \in Signatures : Resolve(name, signature)
DoInvoke == \E index \in 0..MaxIndex, args \in ArgLists : Invoke(index, args)
DoInvokeRef == \E args \in ArgLists : InvokeRef(args)

Next == DoResolve \/ DoInvoke \/ DoInvokeRef \/ Return

Spec == Init /\ [][Next]_vars

\* -------------------------------------------------------------- properties
\* Signature(F) as the declaration's native types give it: the tag of each
\* parameter type in declared order and the tag of the return type, if any.
SignatureOf(f) ==
    [params |-> [i \in 1..Len(f.params) |-> TagOf(f.params[i].ty)],
     return_type |-> IF f.ret.kind = "unit" THEN None ELSE Some(TagOf(f.ret.ty))]

DeclaredName(name) == \E i \in 1..Len(funcs) : funcs[i].name = name
DeclaredIndex(index) == \E i \in 1..Len(funcs) : funcs[i].index = index

\* The earliest declaration carrying a name / an ordinal.
FirstNamed(name) ==
    funcs[CHOOSE i \in 1..Len(funcs) :
            funcs[i].name = name /\ \A j \in 1..(i - 1) : funcs[j].name # name]
FirstIndexed(index) ==
    funcs[CHOOSE i \in 1..Len(funcs) :
            funcs[i].index = index /\ \A j \in 1..(i - 1) : funcs[j].index # index]

UniqueNamesAndOrdinals ==
    \A i, j \in 1..Len(funcs) :
        i # j => funcs[i].name # funcs[j].name /\ funcs[i].index # funcs[j].index

\* s differs from t in arity, in the tag at some position, or in the return tag.
Differs(s, t) ==
    \/ Len(s.params) # Len(t.params)
    \/ \E i \in 1..Len(s.params) : i <= Len(t.params) /\ s.params[i] # t.params[i]
    \/ s.return_type # t.return_type

ResolveDone == call.op = "resolve"
DispatchDone == call.op \in {"invoke", "invoke_ref"}

InstantiationError ==
    /\ result.kind = "Err"
    /\ result.error.class = "Instantiation"
    /\ result.func_ref = None

\* A resolve of a declared name whose first declaration the signature mismatches.
ResolveMismatch ==
    /\ ResolveDone
    /\ DeclaredName(call.name)
    /\ Differs(call.signature, SignatureOf(FirstNamed(call.name)))

\* C1: resolving a declared name with a signature that differs from the
\* materialized signature of the first declaration of that name in arity, in a
\* parameter tag or in the return tag yields an Instantiation error and no
\* function reference.
C1_MismatchRejected == ResolveMismatch => InstantiationError

\* C1 witness: a resolve rejected although only the return tag differs
\* (a return tag requested for a method that returns nothing, or the reverse).
C1_Witness ==
    /\ ResolveMismatch
    /\ call.signature.params = SignatureOf(FirstNamed(call.name)).params
    /\ (call.signature.return_type = None
        \/ SignatureOf(FirstNamed(call.name)).return_type = None)
    /\ InstantiationError

\* The resolve succeeded with a reference carrying f's ordinal and the
\* supplied signature.
ResolvedTo(f) ==
    /\ result.kind = "Ok"
    /\ result.func_ref = Some([signature |-> call.signature, index |-> f.index])
    /\ func_ref = result.func_ref

\* C2 (as stated): for every declaration F, resolving F's name with exactly
\* F's materialized signature succeeds with a reference carrying F's ordinal.
C2_EveryDeclarationResolves ==
    \A i \in 1..Len(funcs) :
        (ResolveDone /\ call.name = funcs[i].name
                     /\ call.signature = SignatureOf(funcs[i]))
            => ResolvedTo(funcs[i])

\* C2 (amended): for every declaration F that is the earliest declaration of
\* its name, resolving F's name with exactly F's materialized signature
\* succeeds with a reference carrying F's ordinal and the supplied signature.
C2_FirstDeclarationResolves ==
    \A i \in 1..Len(funcs) :
        (ResolveDone /\ call.name = funcs[i].name
                     /\ (\A j \in 1..(i - 1) : funcs[j].name # funcs[i].name)
                     /\ call.signature = SignatureOf(funcs[i]))
            => ResolvedTo(funcs[i])

\* C2 witness: a successful resolve of a declaration with two parameters and a
\* return value, whose ordinal is not 0.
C2_Witness ==
    /\ ResolveDone
    /\ DeclaredName(call.name)
    /\ call.signature = SignatureOf(FirstNamed(call.name))
    /\ Len(call.signature.params) = 2
    /\ FirstNamed(call.name).index # 0
    /\ ResolvedTo(FirstNamed(call.name))

\* The native values the arguments convert to for f's parameters.
Converted(f, args) ==
    [i \in 1..Len(f.params) |-> [ty |-> f.params[i].ty, val |-> args[i].val]]

\* args holds exactly f's parameters, each with the tag of its native type.
Convertible(f, args) ==
    /\ Len(args) = Len(f.params)
    /\ \A i \in 1..Len(args) : args[i].ty = TagOf(f.params[i].ty)

\* The dispatcher returned the conversion of what f's method returns on a.
ReturnsResultOf(f, a) ==
    LET r == NativeMethod(f, a)
    IN  CASE r.shape = "unit" -> result.kind = "Ok" /\ result.value = None
          [] r.shape = "err"  -> result.kind = "Err" /\ result.error.class = "Trap"
                                 /\ result.value = None
          [] OTHER -> /\ result.kind = "Ok"
                      /\ result.value =
                            Some([ty |-> TagOf(f.ret.ty), val |-> r.value[1].val])

\* C3: with unique names and ordinals, the reference a successful resolve
\* returned designates the resolved declaration F, and dispatching its ordinal
\* with arguments convertible to F's parameter types calls F's method exactly
\* once, with the i-th argument as the i-th parameter, calls nothing else and
\* returns F's converted result.
C3_RoundTrip ==
    (UniqueNamesAndOrdinals /\ func_ref # None) =>
        /\ DeclaredIndex(func_ref[1].index)
        /\ func_ref[1].signature = SignatureOf(FirstIndexed(func_ref[1].index))
        /\ (ResolveDone /\ result.kind = "Ok")
              => FirstIndexed(func_ref[1].index).name = call.name
        /\ (call.op = "invoke_ref"
            /\ Convertible(FirstIndexed(func_ref[1].index), call.args))
              => LET f == FirstIndexed(func_ref[1].index)
                     a == Converted(f, call.args)
                 IN  /\ call.index = f.index
                     /\ result.natives = <<[name |-> f.name, args |-> a]>>
                     /\ ReturnsResultOf(f, a)

\* C3 witness: a resolved two-parameter method dispatched with two different
\* argument values, called once and returning their difference.
C3_Witness ==
    /\ UniqueNamesAndOrdinals
    /\ call.op = "invoke_ref"
    /\ Len(call.args) = 2
    /\ call.args[1].val # call.args[2].val
    /\ Len(result.natives) = 1
    /\ result.kind = "Ok"
    /\ result.value # None
    /\ result.value[1].val = call.args[1].val - call.args[2].val

\* C4: resolving a name no declaration carries yields the "Export <name> not
\* found" Instantiation error and no function reference.
C4_UnknownNameRejected ==
    (ResolveDone /\ ~DeclaredName(call.name)) =>
        /\ InstantiationError
        /\ result.error.text = "Export {} not found"
        /\ result.error.name = call.name

\* C4 witness: a rejected resolve of a name the unit does not declare, with a
\* signature that one of the unit's declarations has.
C4_Witness ==
    /\ ResolveDone
    /\ ~DeclaredName(call.name)
    /\ \E i \in 1..Len(funcs) : call.signature = SignatureOf(funcs[i])
    /\ InstantiationError

\* C5: resolve decides on the earliest declaration of the name alone: a
\* success carries the earliest declaration's ordinal and never a later
\* same-named declaration's, and a signature that mismatches the earliest
\* declaration is rejected whatever the later declarations of the name are.
C5_FirstMatchShadows ==
    (ResolveDone /\ DeclaredName(call.name)) =>
        /\ result.kind = "Ok" => ResolvedTo(FirstNamed(call.name))
        /\ call.signature # SignatureOf(FirstNamed(call.name)) => InstantiationError

\* C5 witness: two declarations with different ordinals share the requested
\* name and the resolve succeeded with the earlier one's ordinal.
C5_Witness ==
    /\ ResolveDone
    /\ result.kind = "Ok"
    /\ \E i, j \in 1..Len(funcs) :
          /\ i < j
          /\ funcs[i].name = call.name
          /\ funcs[j].name = call.name
          /\ funcs[i].index # funcs[j].index
          /\ result.func_ref[1].index = funcs[i].index

\* C6: invoking the dispatcher with an index that is no declaration's ordinal
\* calls no native method and returns no value: it ends in the
\* "fn with index {} is undefined" panic.
C6_OrdinalIsolation ==
    (DispatchDone /\ ~DeclaredIndex(call.index)) =>
        /\ result.kind = "panic"
        /\ result.error.text = "fn with index {} is undefined"
        /\ result.error.index = <<call.index>>
        /\ result.natives = <<>>
        /\ result.value = None
        /\ pc = "aborted"

\* C6 witness: an undeclared index invoked with arguments that some declared
\* method would accept.
C6_Witness ==
    /\ call.op = "invoke"
    /\ ~DeclaredIndex(call.index)
    /\ \E i \in 1..Len(funcs) :
          Len(funcs[i].params) > 0 /\ Convertible(funcs[i], call.args)
    /\ pc = "aborted"

\* The arguments run out before f's parameters are filled, or one of them
\* does not convert to its parameter's native type.
Unconvertible(f, args) ==
    \/ Len(args) < Len(f.params)
    \/ \E i \in 1..Len(f.params) : i <= Len(args) /\ args[i].ty # TagOf(f.params[i].ty)

\* C7 (as stated): a dispatch on a declared ordinal whose arguments run out
\* early or fail conversion returns Err(Trap) through the dispatcher's Result
\* and does not call the native method.
C7_ConversionFailureIsTrap ==
    (DispatchDone /\ DeclaredIndex(call.index)
                  /\ Unconvertible(FirstIndexed(call.index), call.args)) =>
        /\ result.kind = "Err"
        /\ result.error.class = "Trap"
        /\ result.natives = <<>>

\* C8: resolve never panics and never calls a native method: whatever the name
\* and the signature, it returns a function reference or an Instantiation
\* error.
C8_ResolveNeverPanics ==
    ResolveDone =>
        /\ result.natives = <<>>
        /\ pc = "returned"
        /\ \/ result.kind = "Ok" /\ result.func_ref # None
           \/ InstantiationError

\* C8 witness: a resolve whose name matched a declaration (so the arm holding
\* the type-inference call ran) has returned.
C8_Witness ==
    /\ ResolveDone
    /\ DeclaredName(call.name)
    /\ pc = "returned"
    /\ result.kind = "Ok"
    /\ Len(FirstNamed(call.name).params) > 0

\* C9: a dispatch on a declared ordinal whose arguments all convert returns
\* what the native call's return value determines: Ok(Some(converted value))
\* for a value, Ok(None) for a method returning nothing, Err(Trap) when the
\* method reports failure, which is returned and not turned into a panic.
C9_ResultFollowsNativeReturn ==
    (DispatchDone /\ DeclaredIndex(call.index)
                  /\ ~Unconvertible(FirstIndexed(call.index), call.args)) =>
        LET f == FirstIndexed(call.index)
            a == Converted(f, call.args)
        IN  /\ ReturnsResultOf(f, a)
            /\ pc = "returned"

\* C9 witness: a dispatch whose native method reported failure returned
\* Err(Trap).
C9_Witness ==
    /\ call.op = "invoke"
    /\ DeclaredIndex(call.index)
    /\ ~Unconvertible(FirstIndexed(call.index), call.args)
    /\ Len(result.natives) = 1
    /\ result.kind = "Err"
    /\ result.error.class = "Trap"
    /\ pc = "returned"

\* The error names sig among the signatures it carries.
Carries(sig) == \E i \in 1..Len(result.error.signatures) : result.error.signatures[i] = sig

\* C10 (as stated): the Instantiation error of a signature mismatch carries
\* the declaration's name, the expected (materialized) signature and the
\* requested signature.
C10_ErrorCarriesBothSignatures ==
    ResolveMismatch =>
        /\ InstantiationError
        /\ result.error.name = FirstNamed(call.name).name
        /\ Carries(SignatureOf(FirstNamed(call.name)))
        /\ Carries(call.signature)

\* C10 (amended): the Instantiation error of a signature mismatch carries the
\* declaration's name and the requested signature, and no other signature.
C10_ErrorCarriesRequestedSignature ==
    ResolveMismatch =>
        /\ InstantiationError
        /\ result.error.text = "Export {} has different signature {:?}"
        /\ result.error.name = FirstNamed(call.name).name
        /\ result.error.signatures = <<call.signature>>

\* C10 witness: a mismatch error whose only signature is the requested one,
\* of another arity than the expected one.
C10_Witness ==
    /\ ResolveMismatch
    /\ Len(call.signature.params) # Len(SignatureOf(FirstNamed(call.name)).params)
    /\ result.error.signatures = <<call.signature>>
    /\ ~Carries(SignatureOf(FirstNamed(call.name)))

====
